---- MODULE Spec2Model ----
(***************************************************************************)
(* Model of scripts/update_version.py of CNanoLog: the version-propagation *)
(* engine.  One invocation validates its argument and then runs four       *)
(* updaters in a fixed order over six files of the working directory.      *)
(*                                                                         *)
(* Text is a sequence of one-character strings, so that strip, split,      *)
(* join, the regular expressions and the newline translation of text-mode  *)
(* reads are computed, not assumed.  The manifest (vcpkg.json) is kept as  *)
(* the sequence of its top-level members together with its layout (indent  *)
(* width, number of trailing newlines), or as a non-object / unparsable    *)
(* document.                                                               *)
(***************************************************************************)
EXTENDS Integers, Sequences, FiniteSets, TLC

VARIABLES
    argv,        \* sys.argv[1:], a sequence of texts
    pc,          \* position of the invocation in main()
    new_version, \* main's local new_version (<<>> before it is assigned)
    doc_i,       \* index of the next entry of docs in update_documentation
    disk,        \* the working directory: file name -> content
    disk0,       \* the working directory as the current invocation found it
    reads,       \* files opened for reading by the current invocation
    writes,      \* files opened for writing by the current invocation
    out,         \* status lines printed by the current invocation
    exit,        \* exit status of the invocation (-1 while it runs)
    run          \* number of the current invocation

vars == <<argv, pc, new_version, doc_i, disk, disk0, reads, writes, out, exit, run>>

----------------------------------------------------------------------------
(* Bounds of the model *)

MaxRuns == 2
MaxLines == 2
MaxFields == 2
MaxFrags == 2

----------------------------------------------------------------------------
(* Characters and text primitives of the Python runtime *)

\* str.isspace for the characters of the model's alphabet (used by strip)
IsSpace(c) == c \in {" ", "\t", "\n", "\r", "\f"}

\* the regular expression class \d
IsDigit(c) == c \in {"0", "1", "2", "3", "4", "5", "6", "7", "8", "9"}

RECURSIVE lstrip(_)
lstrip(s) ==
    IF s # <<>> /\ IsSpace(Head(s)) THEN lstrip(Tail(s)) ELSE s

RECURSIVE rstrip(_)
rstrip(s) ==
    IF s # <<>> /\ IsSpace(s[Len(s)]) THEN rstrip(SubSeq(s, 1, Len(s) - 1)) ELSE s

\* faulty variant of strip: the argument is used as given
strip_omitted(s) == s

\* str.strip()
strip(s) == lstrip(rstrip(s))

\* str.startswith(p)
startswith(s, p) == Len(s) >= Len(p) /\ SubSeq(s, 1, Len(p)) = p

\* s[i:].startswith(p), i counted from 1
HasAt(s, i, p) ==
    /\ i + Len(p) - 1 <= Len(s)
    /\ SubSeq(s, i, i + Len(p) - 1) = p

\* the operator `p in s` on strings
contains(s, p) == \E i \in 1..(Len(s) + 1) : HasAt(s, i, p)

\* str.split('\n'): the pieces between the newlines, always at least one
RECURSIVE split(_)
split(s) ==
    IF \A i \in 1..Len(s) : s[i] # "\n"
    THEN <<s>>
    ELSE LET k == CHOOSE i \in 1..Len(s) :
                      s[i] = "\n" /\ \A j \in 1..(i - 1) : s[j] # "\n"
         IN  <<SubSeq(s, 1, k - 1)>> \o split(SubSeq(s, k + 1, Len(s)))

\* '\n'.join(lines)
RECURSIVE join(_)
join(lines) ==
    IF lines = <<>> THEN <<>>
    ELSE IF Len(lines) = 1 THEN lines[1]
    ELSE lines[1] \o <<"\n">> \o join(Tail(lines))

\* Text-mode reading (Path.read_text, newline=None): "\r\n" and a lone "\r"
\* both arrive as "\n".
RECURSIVE universal_newlines(_)
universal_newlines(s) ==
    IF s = <<>> THEN <<>>
    ELSE IF Head(s) = "\r"
         THEN IF Len(s) >= 2 /\ s[2] = "\n"
              THEN <<"\n">> \o universal_newlines(SubSeq(s, 3, Len(s)))
              ELSE <<"\n">> \o universal_newlines(Tail(s))
         ELSE <<Head(s)>> \o universal_newlines(Tail(s))

\* the position after the longest run of digits of s that starts at i
RECURSIVE DigitsEnd(_, _)
DigitsEnd(s, i) ==
    IF i <= Len(s) /\ IsDigit(s[i]) THEN DigitsEnd(s, i + 1) ELSE i

\* \d+\.\d+\.\d+ matched at position i of s: the position after the match, or
\* 0 when there is none.  The greedy \d+ cannot give digits back: what follows
\* a shorter run is a digit, never the dot.
VersionEnd(s, i) ==
    LET a == DigitsEnd(s, i) IN
    IF a = i \/ a > Len(s) \/ s[a] # "." THEN 0
    ELSE LET b == DigitsEnd(s, a + 1) IN
         IF b = a + 1 \/ b > Len(s) \/ s[b] # "." THEN 0
         ELSE LET c == DigitsEnd(s, b + 1) IN
              IF c = b + 1 THEN 0 ELSE c

\* faulty variant of re_match_version: the pattern without its closing anchor
re_match_version_unanchored(s) == VersionEnd(s, 1) # 0

\* re.match(r'^\d+\.\d+\.\d+$', s): $ matches at the end of the text and
\* before a newline that ends it
re_match_version(s) ==
    LET e == VersionEnd(s, 1) IN
    /\ e # 0
    /\ \/ e = Len(s) + 1
       \/ e = Len(s) /\ s[e] = "\n"

----------------------------------------------------------------------------
(* Literals of the script *)

REF == <<"R", "E", "F">>

\* 'REF v${VERSION}'
Marker == <<"R", "E", "F", " ", "v", "$", "{", "V", "E", "R", "S", "I", "O", "N", "}">>

\* the literal part of r"cnanolog/\d+\.\d+\.\d+" and of f"cnanolog/{new_version}"
Cnanolog == <<"c", "n", "a", "n", "o", "l", "o", "g", "/">>

\* the literal part of r"v\d+\.\d+\.\d+" and of f"v{new_version}"
VPrefix == <<"v">>

VersionKey == "version-string"

\* f'    REF v{new_version}'
RefLine(v) == <<" ", " ", " ", " ">> \o REF \o <<" ", "v">> \o v

\* the dictionary docs of update_documentation, in its insertion order; a rule
\* is the literal prefix of its pattern, which is also that of its replacement
docs ==
    << [file |-> "README.md", rules |-> <<Cnanolog, VPrefix>>],
       [file |-> "CONAN.md",  rules |-> <<Cnanolog>>],
       [file |-> "VCPKG.md",  rules |-> <<VPrefix>>] >>

Files == {"VERSION", "vcpkg.json", "portfile.cmake", "README.md", "CONAN.md", "VCPKG.md"}

----------------------------------------------------------------------------
(* update_documentation: the regular expressions *)

\* faulty variant of PatternEnd: the pattern stops after MINOR (prefix\d+\.\d+)
PatternEndTwoGroups(prefix, s, i) ==
    IF ~HasAt(s, i, prefix) THEN 0
    ELSE LET p == i + Len(prefix)
             a == DigitsEnd(s, p) IN
         IF a = p \/ a > Len(s) \/ s[a] # "." THEN 0
         ELSE LET b == DigitsEnd(s, a + 1) IN
              IF b = a + 1 THEN 0 ELSE b

\* prefix\d+\.\d+\.\d+ matched at position i of s: the position after the
\* match, or 0
PatternEnd(prefix, s, i) ==
    IF HasAt(s, i, prefix) THEN VersionEnd(s, i + Len(prefix)) ELSE 0

\* re.search(pattern, content) as a truth value
re_search(prefix, s) == \E i \in 1..Len(s) : PatternEnd(prefix, s, i) # 0

RECURSIVE SubFrom(_, _, _, _, _)
SubFrom(prefix, repl, s, i, limit) ==
    IF i > Len(s) THEN <<>>
    ELSE LET e == PatternEnd(prefix, s, i) IN
         IF e # 0 /\ limit # 0
         THEN repl \o SubFrom(prefix, repl, s, e, IF limit > 0 THEN limit - 1 ELSE limit)
         ELSE <<s[i]>> \o SubFrom(prefix, repl, s, i + 1, limit)

\* faulty variant of re_sub: re.sub(pattern, replacement, content, count=1)
re_sub_first(prefix, repl, s) == SubFrom(prefix, repl, s, 1, 1)

\* re.sub(pattern, replacement, content): every non-overlapping match, found
\* from the left, is replaced
re_sub(prefix, repl, s) == SubFrom(prefix, repl, s, 1, -1)

\* the inner loop of update_documentation over one file's rules
RECURSIVE ApplyRules(_, _, _, _)
ApplyRules(rules, content, modified, v) ==
    IF rules = <<>> THEN [content |-> content, modified |-> modified]
    ELSE IF re_search(Head(rules), content)
         THEN ApplyRules(Tail(rules), re_sub(Head(rules), Head(rules) \o v, content), TRUE, v)
         ELSE ApplyRules(Tail(rules), content, modified, v)

----------------------------------------------------------------------------
(* update_portfile_cmake: the scan of the lines *)

\* faulty variant of ScanLines: no break after the replacement, so every line
\* that begins with REF is replaced
RECURSIVE ScanLinesNoBreak(_, _, _)
ScanLinesNoBreak(lines, i, v) ==
    IF i > Len(lines) THEN [returned |-> FALSE, replaced |-> FALSE, lines |-> lines]
    ELSE IF contains(lines[i], Marker)
         THEN [returned |-> TRUE, replaced |-> FALSE, lines |-> lines]
    ELSE IF startswith(strip(lines[i]), REF)
         THEN LET r == ScanLinesNoBreak([lines EXCEPT ![i] = RefLine(v)], i + 1, v)
              IN  [r EXCEPT !.replaced = TRUE]
    ELSE ScanLinesNoBreak(lines, i + 1, v)

\* The for loop over enumerate(lines), from index i on: it returns at the first
\* line holding the marker, or replaces the first line that begins with REF and
\* breaks, or runs off the end.
RECURSIVE ScanLines(_, _, _)
ScanLines(lines, i, v) ==
    IF i > Len(lines) THEN [returned |-> FALSE, replaced |-> FALSE, lines |-> lines]
    ELSE IF contains(lines[i], Marker)
         THEN [returned |-> TRUE, replaced |-> FALSE, lines |-> lines]
    ELSE IF startswith(strip(lines[i]), REF)
         THEN [returned |-> FALSE, replaced |-> TRUE,
               lines |-> [lines EXCEPT ![i] = RefLine(v)]]
    ELSE ScanLines(lines, i + 1, v)

----------------------------------------------------------------------------
(* update_vcpkg_json: the document *)

\* a JSON string value
Str(s) == [t |-> "string", x |-> s]

\* a JSON number value
Num(s) == [t |-> "number", x |-> s]

\* d[k] = v on a Python dict kept as its sequence of items: a key that is
\* there keeps its place, a new key goes to the end
dict_set(d, k, v) ==
    IF \E i \in 1..Len(d) : d[i].k = k
    THEN [i \in 1..Len(d) |-> IF d[i].k = k THEN [k |-> k, v |-> v] ELSE d[i]]
    ELSE Append(d, [k |-> k, v |-> v])

\* dict(pairs): the members of the document in order, a repeated key keeping
\* its first place and its last value
RECURSIVE dict_of(_, _)
dict_of(pairs, d) ==
    IF pairs = <<>> THEN d
    ELSE dict_of(Tail(pairs), dict_set(d, Head(pairs).k, Head(pairs).v))

\* faulty variant of json_load: a document that is no JSON object is taken
\* for an empty one
json_load_lenient(content) ==
    IF content.kind = "object"
    THEN [raises |-> FALSE, isdict |-> TRUE, data |-> dict_of(content.pairs, <<>>)]
    ELSE [raises |-> FALSE, isdict |-> TRUE, data |-> <<>>]

\* json.load(f): raises on a text that is no JSON document; a document whose
\* top level is no object loads as a value that is no dict
json_load(content) ==
    IF content.kind = "object"
    THEN [raises |-> FALSE, isdict |-> TRUE, data |-> dict_of(content.pairs, <<>>)]
    ELSE IF content.kind = "array"
    THEN [raises |-> FALSE, isdict |-> FALSE, data |-> <<>>]
    ELSE [raises |-> TRUE, isdict |-> FALSE, data |-> <<>>]

\* faulty variant of json_dump_nl: the closing f.write('\n') is missing
json_dump_only(data) ==
    [exists |-> TRUE, kind |-> "object", pairs |-> data, indent |-> 2, eol |-> 0]

\* json.dump(data, f, indent=2) followed by f.write('\n'), into the file
\* truncated by open(..., 'w')
json_dump_nl(data) ==
    [exists |-> TRUE, kind |-> "object", pairs |-> data, indent |-> 2, eol |-> 1]

----------------------------------------------------------------------------
(* The working directory *)

\* a text file that is there
TextFile(t) == [exists |-> TRUE, text |-> t]

AbsentText == [exists |-> FALSE, text |-> <<>>]

AbsentManifest ==
    [exists |-> FALSE, kind |-> "none", pairs |-> <<>>, indent |-> 0, eol |-> 0]

\* a status line of one artifact, or a line of main (file "")
Line(file, status) == [file |-> file, status |-> status]

\* faulty variant of exists: the check for a missing file is left out
exists_unchecked(file) == TRUE

\* Path(file).exists()
exists(file) == disk[file].exists

\* Path.read_text() of a text file that exists
read_text(file) == universal_newlines(disk[file].text)

----------------------------------------------------------------------------
(* Inputs: arguments and initial contents *)

V123 == <<"1", ".", "2", ".", "3">>
V100 == <<"1", ".", "0", ".", "0">>

\* sys.argv[1:]: none, two, valid ones (one wrapped in white space), and
\* rejected ones
Args ==
    { <<>>,
      <<V123, V123>>,
      <<V123>>,
      << <<" ">> \o <<"2", ".", "0", ".", "1", "0">> \o <<"\n">> >>,
      << <<>> >>,
      << <<"v">> \o V123 >>,
      << <<"1", ".", "2">> >>,
      << V123 \o <<".", "4">> >>,
      << V123 \o <<"-", "r", "c">> >>,
      << <<"1", ".", ".", "3">> >>,
      << V123 \o <<"\n", "x">> >> }

\* sequences over S of length lo..hi
SeqsOf(S, lo, hi) == UNION { [1..n -> S] : n \in lo..hi }

RECURSIVE Concat(_)
Concat(ss) == IF ss = <<>> THEN <<>> ELSE Head(ss) \o Concat(Tail(ss))

\* lines a portfile.cmake is made of
PortLines ==
    { <<" ", " ", " ", " ">> \o Marker,
      <<"#", " ">> \o Marker,
      <<" ", " ", " ", " ">> \o REF \o <<" ", "v">> \o V100,
      REF \o <<"S">>,
      <<"H", "E", "A", "D", "_">> \o REF \o <<" ", "m">>,
      <<"\t">> \o REF \o <<"\r">>,
      <<>> }

PortTexts == { join(ls) : ls \in SeqsOf(PortLines, 1, MaxLines) }

\* fragments a documentation file is made of
DocFrags ==
    { Cnanolog \o V100,
      <<"v">> \o V100 \o <<" ">> \o Cnanolog \o <<"0", ".", "9", ".", "1", "2">>,
      <<"v">> \o V100,
      <<"v">> \o V123,
      <<"v", "1", ".", "2">>,
      <<".", "4">>,
      <<"7">>,
      <<" ", "\r", "\n">> }

DocTexts == { Concat(fs) : fs \in SeqsOf(DocFrags, 0, MaxFrags) }

\* members a vcpkg.json is made of
Members ==
    { [k |-> "name", v |-> Str(<<"c", "n", "a", "n", "o", "l", "o", "g">>)],
      [k |-> VersionKey, v |-> Str(V100)],
      [k |-> VersionKey, v |-> Num(<<"7">>)],
      [k |-> "port-version", v |-> Num(<<"1">>)] }

\* layouts of a vcpkg.json: indent width and trailing newlines
Layouts == { <<2, 1>>, <<4, 0>>, <<2, 2>> }

Manifests ==
    { [exists |-> TRUE, kind |-> "object", pairs |-> ps, indent |-> l[1], eol |-> l[2]] :
          ps \in SeqsOf(Members, 0, MaxFields), l \in Layouts }
    \cup { [exists |-> TRUE, kind |-> k, pairs |-> <<>>, indent |-> 0, eol |-> l] :
               k \in {"array", "garbage"}, l \in {0, 1} }

VersionTexts == { <<>>, V100, V100 \o <<"\n">>, <<"d", "e", "v">> }

\* the files of a release as the repository ships them
Baseline ==
    [f \in Files |->
        CASE f = "VERSION" -> TextFile(V100)
          [] f = "vcpkg.json" ->
                 [exists |-> TRUE, kind |-> "object",
                  pairs |-> << [k |-> "name", v |-> Str(<<"c", "n", "a", "n", "o", "l", "o", "g">>)],
                               [k |-> VersionKey, v |-> Str(V100)] >>,
                  indent |-> 2, eol |-> 1]
          [] f = "portfile.cmake" ->
                 TextFile(join(<< <<"H", "E", "A", "D", "_">> \o REF \o <<" ", "m">>,
                                  <<" ", " ", " ", " ">> \o Marker >>))
          [] f = "README.md" -> TextFile(Cnanolog \o V100 \o <<" ", "v">> \o V100)
          [] f = "CONAN.md" -> TextFile(Cnanolog \o V100)
          [] f = "VCPKG.md" -> TextFile(<<"v">> \o V100)]

Absent(f) == IF f = "vcpkg.json" THEN AbsentManifest ELSE AbsentText

\* every subset of the files missing, the others as shipped
SubsetDirs ==
    { [f \in Files |-> IF f \in gone THEN Absent(f) ELSE Baseline[f]] : gone \in SUBSET Files }

\* one file drawn from its family, the others all as shipped or all missing
FocusDirs ==
    LET Others(f, c) ==
            { [g \in Files |-> IF g = f THEN c ELSE Baseline[g]],
              [g \in Files |-> IF g = f THEN c ELSE Absent(g)] }
    IN  UNION (   { Others("VERSION", TextFile(t)) : t \in VersionTexts }
             \cup { Others("vcpkg.json", m) : m \in Manifests }
             \cup { Others("portfile.cmake", TextFile(t)) : t \in PortTexts }
             \cup { Others(d, TextFile(t)) : d \in {"README.md", "CONAN.md", "VCPKG.md"},
                                             t \in DocTexts } )

Dirs == SubsetDirs \cup FocusDirs

----------------------------------------------------------------------------
(* The invocation *)

Init ==
    /\ argv \in Args
    /\ disk \in Dirs
    /\ disk0 = disk
    /\ pc = "main"
    /\ new_version = <<>>
    /\ doc_i = 1
    /\ reads = {}
    /\ writes = {}
    /\ out = <<>>
    /\ exit = -1
    /\ run = 1

\* main, up to the banner: the argument count, strip, the format check
Main ==
    /\ pc = "main"
    /\ IF Len(argv) # 1
       THEN /\ out' = Append(out, Line("", "usage"))
            /\ pc' = "done"
            /\ exit' = 1
            /\ UNCHANGED new_version
       ELSE /\ new_version' = strip(argv[1])
            /\ IF ~re_match_version(new_version')
               THEN /\ out' = Append(out, Line("", "invalid-format"))
                    /\ pc' = "done"
                    /\ exit' = 1
               ELSE /\ out' = Append(out, Line("", "banner"))
                    /\ pc' = "update_version_file"
                    /\ UNCHANGED exit
    /\ UNCHANGED <<argv, doc_i, disk, disk0, reads, writes, run>>

update_version_file ==
    /\ pc = "update_version_file"
    /\ disk' = [disk EXCEPT !["VERSION"] = TextFile(new_version)]
    /\ writes' = writes \cup {"VERSION"}
    /\ out' = Append(out, Line("VERSION", "updated"))
    /\ pc' = "update_vcpkg_json"
    /\ UNCHANGED <<argv, new_version, doc_i, disk0, reads, exit, run>>

\* json.load raising, or the item assignment on a value that is no dict,
\* ends the invocation with a traceback and status 1
update_vcpkg_json ==
    /\ pc = "update_vcpkg_json"
    /\ IF ~exists("vcpkg.json")
       THEN /\ out' = Append(out, Line("vcpkg.json", "skipped-missing"))
            /\ pc' = "update_portfile_cmake"
            /\ UNCHANGED <<disk, reads, writes, exit>>
       ELSE LET loaded == json_load(disk["vcpkg.json"]) IN
            /\ reads' = reads \cup {"vcpkg.json"}
            /\ IF loaded.raises \/ ~loaded.isdict
               THEN /\ pc' = "done"
                    /\ exit' = 1
                    /\ UNCHANGED <<disk, writes, out>>
               ELSE /\ disk' = [disk EXCEPT !["vcpkg.json"] =
                                    json_dump_nl(dict_set(loaded.data, VersionKey, Str(new_version)))]
                    /\ writes' = writes \cup {"vcpkg.json"}
                    /\ out' = Append(out, Line("vcpkg.json", "updated"))
                    /\ pc' = "update_portfile_cmake"
                    /\ UNCHANGED exit
    /\ UNCHANGED <<argv, new_version, doc_i, disk0, run>>

update_portfile_cmake ==
    /\ pc = "update_portfile_cmake"
    /\ IF ~exists("portfile.cmake")
       THEN /\ out' = Append(out, Line("portfile.cmake", "skipped-missing"))
            /\ UNCHANGED <<disk, reads, writes>>
       ELSE LET scan == ScanLines(split(read_text("portfile.cmake")), 1, new_version) IN
            /\ reads' = reads \cup {"portfile.cmake"}
            /\ IF scan.returned
               THEN /\ out' = Append(out, Line("portfile.cmake", "skipped-already-correct"))
                    /\ UNCHANGED <<disk, writes>>
               ELSE /\ disk' = [disk EXCEPT !["portfile.cmake"] = TextFile(join(scan.lines))]
                    /\ writes' = writes \cup {"portfile.cmake"}
                    /\ out' = IF scan.replaced
                              THEN Append(out, Line("portfile.cmake", "updated"))
                              ELSE out
    /\ pc' = "update_documentation"
    /\ doc_i' = 1
    /\ UNCHANGED <<argv, new_version, disk0, exit, run>>

\* one iteration of the loop over docs.items()
update_documentation ==
    /\ pc = "update_documentation"
    /\ doc_i <= Len(docs)
    /\ LET doc_file == docs[doc_i].file IN
       IF ~exists(doc_file)
       THEN /\ out' = Append(out, Line(doc_file, "skipped-missing"))
            /\ UNCHANGED <<disk, reads, writes>>
       ELSE LET res == ApplyRules(docs[doc_i].rules, read_text(doc_file), FALSE, new_version) IN
            /\ reads' = reads \cup {doc_file}
            /\ IF res.modified
               THEN /\ disk' = [disk EXCEPT ![doc_file] = TextFile(res.content)]
                    /\ writes' = writes \cup {doc_file}
                    /\ out' = Append(out, Line(doc_file, "updated"))
               ELSE UNCHANGED <<disk, writes, out>>
    /\ doc_i' = doc_i + 1
    /\ pc' = IF doc_i = Len(docs) THEN "summary" ELSE pc
    /\ UNCHANGED <<argv, new_version, disk0, exit, run>>

\* main after the updaters: the summary and the advice, then a normal return
Summary ==
    /\ pc = "summary"
    /\ out' = Append(out, Line("", "summary"))
    /\ pc' = "done"
    /\ exit' = 0
    /\ UNCHANGED <<argv, new_version, doc_i, disk, disk0, reads, writes, run>>

\* the script is run again with the same argument in the directory as the
\* last invocation left it
Rerun ==
    /\ pc = "done"
    /\ run < MaxRuns
    /\ run' = run + 1
    /\ pc' = "main"
    /\ new_version' = <<>>
    /\ doc_i' = 1
    /\ disk0' = disk
    /\ reads' = {}
    /\ writes' = {}
    /\ out' = <<>>
    /\ exit' = -1
    /\ UNCHANGED <<argv, disk>>

Next ==
    \/ Main
    \/ update_version_file
    \/ update_vcpkg_json
    \/ update_portfile_cmake
    \/ update_documentation
    \/ Summary
    \/ Rerun

Spec == Init /\ [][Next]_vars

----------------------------------------------------------------------------
(* Vocabulary of the properties, stated apart from the script's own helpers *)

\* s without the white space at its two ends
Trimmed(s) ==
    LET solid == { i \in 1..Len(s) : ~IsSpace(s[i]) } IN
    IF solid = {} THEN <<>>
    ELSE SubSeq(s, CHOOSE i \in solid : \A j \in solid : i <= j,
                   CHOOSE i \in solid : \A j \in solid : i >= j)

\* MAJOR.MINOR.PATCH: exactly two dots, each between two non-empty groups of
\* digits
IsMajorMinorPatch(s) ==
    \E i, j \in 1..Len(s) :
        /\ 1 < i /\ i + 1 < j /\ j < Len(s)
        /\ \A n \in 1..Len(s) : IF n \in {i, j} THEN s[n] = "." ELSE IsDigit(s[n])

\* exactly one argument, which is a version once trimmed
AcceptedArg == Len(argv) = 1 /\ IsMajorMinorPatch(Trimmed(argv[1]))

\* the version the invocation is asked to propagate
TheVersion == Trimmed(argv[1])

DocFiles == {"README.md", "CONAN.md", "VCPKG.md"}

\* the text of a file as the invocation found it, as a text-mode read gives it
Found(f) == universal_newlines(disk0[f].text)

\* the line begins with the directive keyword once trimmed
BeginsWithREF(l) == startswith(Trimmed(l), REF)

\* the four outcomes an artifact can have
Outcomes == {"updated", "skipped-missing", "skipped-already-correct", "no-op-no-match"}

\* every match of prefix\d+\.\d+\.\d+ in s, taken from the left without
\* overlap, replaced by prefix v
ReplacedAll(prefix, v, s) ==
    LET rest[i \in 1..(Len(s) + 1)] ==
            IF i > Len(s) THEN <<>>
            ELSE IF HasAt(s, i, prefix) /\ VersionEnd(s, i + Len(prefix)) # 0
                 THEN prefix \o v \o rest[VersionEnd(s, i + Len(prefix))]
                 ELSE <<s[i]>> \o rest[i + 1]
    IN  rest[1]

\* some text of s matches prefix\d+\.\d+\.\d+
Mentions(prefix, s) ==
    \E i \in 1..Len(s) : HasAt(s, i, prefix) /\ VersionEnd(s, i + Len(prefix)) # 0

\* the rules of a documentation file applied in order to c
RECURSIVE RulesApplied(_, _, _)
RulesApplied(rules, v, c) ==
    IF rules = <<>> THEN c
    ELSE RulesApplied(Tail(rules), v,
                      IF Mentions(Head(rules), c) THEN ReplacedAll(Head(rules), v, c) ELSE c)

RulesOf(f) == (CHOOSE d \in {docs[i] : i \in 1..Len(docs)} : d.file = f).rules

\* the members of a manifest: its keys, a key's first place and last value
KeysOf(m) == { m.pairs[i].k : i \in 1..Len(m.pairs) }
PlaceOf(m, k) == CHOOSE i \in 1..Len(m.pairs) :
                     m.pairs[i].k = k /\ \A j \in 1..(i - 1) : m.pairs[j].k # k
ValueOf(m, k) == m.pairs[CHOOSE i \in 1..Len(m.pairs) :
                     m.pairs[i].k = k /\ \A j \in (i + 1)..Len(m.pairs) : m.pairs[j].k # k].v

----------------------------------------------------------------------------
(* The claims *)

\* C1: whenever portfile.cmake exists and some line of it contains the marker
\* 'REF v${VERSION}', the invocation leaves the file as it found it and never
\* opens it for writing, wherever the marker line stands among the lines that
\* begin with REF.
C1_MarkerAnywhereBlocks ==
    (disk0["portfile.cmake"].exists /\ contains(disk0["portfile.cmake"].text, Marker))
        => /\ disk["portfile.cmake"] = disk0["portfile.cmake"]
           /\ "portfile.cmake" \notin writes

\* C2: when the argument count is not one or the trimmed argument is no
\* MAJOR.MINOR.PATCH, the invocation ends with a non-zero status straight from
\* main and no file is read, written, created or changed.
C2_RejectedBeforeAnyFile ==
    ~AcceptedArg
        => /\ pc \in {"main", "done"}
           /\ pc = "done" => exit = 1
           /\ disk = disk0
           /\ reads = {} /\ writes = {}

C2_Witness ==
    /\ pc = "done" /\ exit = 1
    /\ Len(argv) = 1 /\ argv[1] # <<>> /\ ~IsMajorMinorPatch(Trimmed(argv[1]))
    /\ \A f \in Files : disk[f].exists

\* C3: an invocation that follows one with the same version changes no file:
\* at every point of it the directory is as it found it, so two invocations
\* end with the files of one.
C3_SecondRunChangesNothing ==
    run >= 2 => disk = disk0

C3_Witness ==
    /\ run = 2 /\ pc = "done" /\ exit = 0
    /\ {"vcpkg.json", "portfile.cmake", "README.md"} \subseteq writes
    /\ ~contains(disk["portfile.cmake"].text, Marker)

\* C4: with an accepted version and a vcpkg.json that exists but cannot be
\* parsed, the invocation never gets past update_vcpkg_json and ends with
\* status 1 and no summary; VERSION holds the version, vcpkg.json is never
\* opened for writing and keeps its content, and portfile.cmake and the
\* documentation files are neither read nor written.
C4_MalformedManifestHalts ==
    (AcceptedArg /\ disk0["vcpkg.json"].exists /\ disk0["vcpkg.json"].kind = "garbage")
        => /\ pc \in {"main", "update_version_file", "update_vcpkg_json", "done"}
           /\ pc = "done" =>
                 /\ exit = 1
                 /\ \A i \in 1..Len(out) : out[i].status # "summary"
                 /\ disk["VERSION"] = TextFile(TheVersion)
           /\ disk["vcpkg.json"] = disk0["vcpkg.json"]
           /\ "vcpkg.json" \notin writes
           /\ \A f \in {"portfile.cmake"} \cup DocFiles :
                 f \notin reads \cup writes /\ disk[f] = disk0[f]

C4_Witness ==
    /\ AcceptedArg /\ disk0["vcpkg.json"].exists /\ disk0["vcpkg.json"].kind = "garbage"
    /\ pc = "done" /\ run = 1
    /\ disk0["VERSION"] # disk["VERSION"]
    /\ \A f \in {"portfile.cmake"} \cup DocFiles : disk[f].exists

\* C5: a file other than VERSION that is missing when the invocation starts is
\* never created; an invocation with an accepted version ends with a non-zero
\* status only when vcpkg.json is there and is no JSON object, never because a
\* file is missing; and when it ends with status 0, every file that was there
\* has been read by its updater, whichever files are missing.
C5_MissingFilesTolerated ==
    /\ \A f \in Files \ {"VERSION"} : ~disk0[f].exists => ~disk[f].exists
    /\ (AcceptedArg /\ pc = "done" /\ exit # 0)
           => disk0["vcpkg.json"].exists /\ disk0["vcpkg.json"].kind # "object"
    /\ (AcceptedArg /\ pc = "done" /\ exit = 0)
           => \A f \in Files \ {"VERSION"} : disk0[f].exists => f \in reads

C5_Witness ==
    /\ AcceptedArg /\ pc = "done" /\ exit = 0
    /\ ~disk0["vcpkg.json"].exists /\ ~disk0["README.md"].exists
    /\ disk0["portfile.cmake"].exists /\ "portfile.cmake" \in reads
    /\ disk0["VCPKG.md"].exists /\ "VCPKG.md" \in writes

\* C6: an invocation with an accepted version that reaches its end has printed
\* exactly one status line for each of the six artifacts, each line one of
\* updated, skipped-missing, skipped-already-correct, no-op-no-match.
C6_OneOutcomePerArtifact ==
    (AcceptedArg /\ pc = "done" /\ exit = 0)
        => \A f \in Files :
              /\ Cardinality({ i \in 1..Len(out) : out[i].file = f }) = 1
              /\ \A i \in 1..Len(out) : out[i].file = f => out[i].status \in Outcomes

\* C7: once update_vcpkg_json has written vcpkg.json, the file is an object
\* whose version-string is the version as a string, whatever it was before and
\* also when it was missing; every other member is there with the value and
\* the relative order it had; and the file ends with exactly one newline.
C7_ManifestUpdate ==
    "vcpkg.json" \in writes =>
        LET old == disk0["vcpkg.json"]
            new == disk["vcpkg.json"] IN
        /\ new.exists /\ new.kind = "object" /\ new.eol = 1
        /\ \A i, j \in 1..Len(new.pairs) : new.pairs[i].k = new.pairs[j].k => i = j
        /\ KeysOf(new) = KeysOf(old) \cup {VersionKey}
        /\ ValueOf(new, VersionKey) = Str(TheVersion)
        /\ \A k \in KeysOf(old) \ {VersionKey} : ValueOf(new, k) = ValueOf(old, k)
        /\ \A k, l \in KeysOf(old) \ {VersionKey} :
               PlaceOf(old, k) < PlaceOf(old, l) => PlaceOf(new, k) < PlaceOf(new, l)

C7_Witness ==
    /\ "vcpkg.json" \in writes /\ run = 1
    /\ Cardinality(KeysOf(disk0["vcpkg.json"])) = 2
    /\ VersionKey \in KeysOf(disk0["vcpkg.json"])
    /\ ValueOf(disk0["vcpkg.json"], VersionKey).t = "number"
    /\ PlaceOf(disk0["vcpkg.json"], VersionKey) = 1
    /\ disk0["vcpkg.json"].eol # 1

\* C8: from the moment update_version_file has run in an invocation with an
\* accepted argument, VERSION exists and its whole content is the trimmed
\* argument, which is a MAJOR.MINOR.PATCH text, whatever VERSION held before
\* and whatever the later updaters do.
C8_VersionFileExact ==
    (AcceptedArg /\ pc \notin {"main", "update_version_file"})
        => /\ disk["VERSION"] = TextFile(TheVersion)
           /\ IsMajorMinorPatch(disk["VERSION"].text)

C8_Witness ==
    /\ AcceptedArg /\ pc = "done" /\ exit = 1 /\ run = 1
    /\ ~disk0["VERSION"].exists
    /\ argv[1] # TheVersion

\* C9: once update_portfile_cmake has read a portfile.cmake that holds no
\* marker, the file has been written with the lines it was read with, in
\* number and order, except that the first line that begins with REF once
\* trimmed is '    REF v' followed by the version; with no such line the content
\* written is the content read.
C9_OnlyFirstDirectiveLine ==
    ("portfile.cmake" \in reads /\ ~contains(Found("portfile.cmake"), Marker))
        => LET old == split(Found("portfile.cmake"))
               new == split(disk["portfile.cmake"].text)
               hits == { i \in 1..Len(old) : BeginsWithREF(old[i]) } IN
           /\ "portfile.cmake" \in writes
           /\ Len(new) = Len(old)
           /\ \A i \in 1..Len(old) :
                 new[i] = IF i \in hits /\ \A j \in hits : i <= j
                          THEN RefLine(TheVersion)
                          ELSE old[i]
           /\ hits = {} => disk["portfile.cmake"].text = Found("portfile.cmake")

C9_Witness ==
    /\ "portfile.cmake" \in reads /\ run = 1
    /\ ~contains(Found("portfile.cmake"), Marker)
    /\ LET old == split(Found("portfile.cmake")) IN
       /\ Len(old) >= 2
       /\ BeginsWithREF(old[1]) /\ BeginsWithREF(old[2])
       /\ old[1] # RefLine(TheVersion) /\ old[2] # RefLine(TheVersion)

\* C10: once update_documentation has read a documentation file, the file has
\* been written if and only if one of its patterns matches the content it was
\* found with; with no match it is exactly as found; with a match its content
\* is the content read with every match of each matching pattern replaced by
\* that rule's replacement for the version, the rules taken in their order,
\* each on the result of the one before.
C10_DocumentationRules ==
    \A f \in DocFiles :
        f \in reads =>
            LET matched == \E i \in 1..Len(RulesOf(f)) : Mentions(RulesOf(f)[i], Found(f)) IN
            /\ f \in writes <=> matched
            /\ ~matched => disk[f] = disk0[f]
            /\ matched => disk[f] = TextFile(RulesApplied(RulesOf(f), TheVersion, Found(f)))

C10_Witness ==
    /\ "README.md" \in writes /\ run = 1
    /\ Mentions(Cnanolog, Found("README.md"))
    /\ \E i, j \in 1..Len(Found("README.md")) :
          /\ i # j
          /\ PatternEnd(VPrefix, Found("README.md"), i) # 0
          /\ PatternEnd(VPrefix, Found("README.md"), j) # 0
    /\ disk["README.md"] # disk0["README.md"]

====
